---- MODULE Spec2Model ----
(***************************************************************************)
(* Model of the table filter / sort script of VaOverseasSchools            *)
(* (src/script.js).  The page fetches a notebook, injects the first HTML   *)
(* table found in it and then attaches the search, country, reset and      *)
(* header-click handlers.  The table body is the only copy of the data:    *)
(* filtering toggles the class "filtered" on rows, sorting re-appends the  *)
(* rows of the body in sorted order.                                       *)
(*                                                                         *)
(* A string is a sequence of one-character strings.  The values used in    *)
(* the model are drawn from letters, digits, the blank, "," and "$"; they  *)
(* contain no ".", no exponent and no "Infinity", so that the number read  *)
(* by parseFloat is the integer prefix of the value.                       *)
(***************************************************************************)
EXTENDS Integers, Sequences, FiniteSets, TLC

\* ------------------------------------------------------------------ bounds
\* largest number of body rows of the injected table
MaxRows == 2

\* ----------------------------------------------------------------- strings
LowerLetters ==
    << "a","b","c","d","e","f","g","h","i","j","k","l","m",
       "n","o","p","q","r","s","t","u","v","w","x","y","z" >>

UpperLetters ==
    << "A","B","C","D","E","F","G","H","I","J","K","L","M",
       "N","O","P","Q","R","S","T","U","V","W","X","Y","Z" >>

Digits == << "0","1","2","3","4","5","6","7","8","9" >>

\* position of character c in sequence s, 0 when absent
IndexOf(s, c) ==
    IF \E i \in 1..Len(s) : s[i] = c
    THEN CHOOSE i \in 1..Len(s) : s[i] = c
    ELSE 0

\* order of UTF-16 code units of the characters of the model
CodeUnitOrder ==
    << " ", "$", "+", ",", "-" >> \o Digits \o UpperLetters \o LowerLetters

Chars == {CodeUnitOrder[i] : i \in 1..Len(CodeUnitOrder)}

IsUpper == [c \in Chars |-> IndexOf(UpperLetters, c) > 0]

IsDigit == [c \in Chars |-> IndexOf(Digits, c) > 0]

DigitValue == [c \in Chars |-> IndexOf(Digits, c) - 1]

IsSpace(c) == c = " "

\* String.prototype.toLowerCase, character by character
ToLowerChar ==
    [c \in Chars |-> IF IsUpper[c] THEN LowerLetters[IndexOf(UpperLetters, c)] ELSE c]

ToLowerCase(s) == [i \in 1..Len(s) |-> ToLowerChar[s[i]]]

\* String.prototype.includes
Includes(s, t) ==
    \E i \in 0..(Len(s) - Len(t)) : SubSeq(s, i + 1, i + Len(t)) = t

\* String.prototype.trim
RECURSIVE TrimStart(_)
TrimStart(s) ==
    IF s # << >> /\ IsSpace(Head(s)) THEN TrimStart(Tail(s)) ELSE s

RECURSIVE TrimEnd(_)
TrimEnd(s) ==
    IF s # << >> /\ IsSpace(s[Len(s)]) THEN TrimEnd(SubSeq(s, 1, Len(s) - 1)) ELSE s

Trim(s) == TrimEnd(TrimStart(s))

\* concatenation of a sequence of strings
RECURSIVE Concat(_)
Concat(ss) == IF ss = << >> THEN << >> ELSE Head(ss) \o Concat(Tail(ss))

\* --------------------------------------------------------------- parseFloat
\* value of a digit string read left to right
RECURSIVE DigitsValue(_, _)
DigitsValue(s, acc) ==
    IF s = << >> \/ ~IsDigit[Head(s)] THEN acc
    ELSE DigitsValue(Tail(s), acc * 10 + DigitValue[Head(s)])

\* parseFloat: skips leading blanks, reads an optional sign and the longest
\* digit prefix; NaN when there is no digit to read
ParseFloat(s) ==
    LET t == TrimStart(s)
        signed == t # << >> /\ Head(t) \in {"-", "+"}
        u == IF signed THEN Tail(t) ELSE t
        mag == DigitsValue(u, 0)
    IN  IF u = << >> \/ ~IsDigit[Head(u)]
        THEN [nan |-> TRUE, val |-> 0]
        ELSE [nan |-> FALSE, val |-> IF signed /\ Head(t) = "-" THEN 0 - mag ELSE mag]

\* ------------------------------------------------------------ localeCompare
\* primary collation order of the root locale: blank < punctuation <
\* currency < digits < letters, letters compared without case
CollationOrder ==
    << " ", ",", "-", "+", "$" >> \o Digits \o LowerLetters

PrimaryWeight == [c \in Chars |-> IndexOf(CollationOrder, ToLowerChar[c])]

\* tertiary weight: a lower-case letter sorts before its upper-case form
TertiaryWeight == [c \in Chars |-> IF IsUpper[c] THEN 1 ELSE 0]

\* lexicographic comparison of two weight sequences: -1, 0 or 1
RECURSIVE LexCompare(_, _)
LexCompare(a, b) ==
    IF a = << >> /\ b = << >> THEN 0
    ELSE IF a = << >> THEN -1
    ELSE IF b = << >> THEN 1
    ELSE IF Head(a) < Head(b) THEN -1
    ELSE IF Head(a) > Head(b) THEN 1
    ELSE LexCompare(Tail(a), Tail(b))

\* String.prototype.localeCompare: negative, zero or positive
LocaleCompare(a, b) ==
    LET p == LexCompare([i \in 1..Len(a) |-> PrimaryWeight[a[i]]],
                        [i \in 1..Len(b) |-> PrimaryWeight[b[i]]])
    IN  IF p # 0 THEN p
        ELSE LexCompare([i \in 1..Len(a) |-> TertiaryWeight[a[i]]],
                        [i \in 1..Len(b) |-> TertiaryWeight[b[i]]])

\* Array.prototype.sort without comparator orders strings by code units
CodeUnit == [c \in Chars |-> IndexOf(CodeUnitOrder, c)]

CodeUnitCompare(a, b) ==
    LexCompare([i \in 1..Len(a) |-> CodeUnit[a[i]]],
               [i \in 1..Len(b) |-> CodeUnit[b[i]]])

\* -------------------------------------------------------------- the table
\* text of the header cells of the injected table, left to right
Headers ==
    << << "I","n","s","t","i","t","u","t","i","o","n" >>,
       << "C","i","t","y" >>,
       << "C","o","u","n","t","r","y" >> >>

Columns == 1..Len(Headers)

\* records a notebook table may hold: the text of the cells of one body row.
\* RecD is a row with fewer cells than there are columns, RecE differs from
\* the others in case and carries blanks around its values.
RecA == << << "A" >>, << "P","a","r","i","s" >>, << "F","r","a","n","c","e" >> >>

RecB == << << "B" >>, << "L","y","o","n" >>, << "F","r","a","n","c","e" >> >>

RecC == << << "C" >>, << "R","o","m","e" >>, << "I","t","a","l","y" >> >>

RecD == << << "D" >>, << "R","o","m","e" >> >>

RecE == << << "b" >>, << " ","l","y","o","n" >>, << "I","t","a","l","y"," " >> >>

RecordPool == {RecA, RecB, RecC, RecD, RecE}

\* the tables a notebook may hold: up to MaxRows body rows, repeats allowed
Datasets == UNION {[1..n -> RecordPool] : n \in 0..MaxRows}

\* largest number of body rows of a table of numbers
MaxNumericRows == 3

\* a record whose first cell holds the given value
NumRec(v) == << v, << "R","o","m","e" >>, << "I","t","a","l","y" >> >>

\* numbers written with digits only
PlainNumbers == { << "1","0" >>, << "2" >>, << "1" >> }

\* numbers written with a thousands separator or a currency symbol
FormattedNumbers ==
    { << "1",",","0","0","0" >>, << "9","9","9" >>, << "$","5" >>, << "$","1","0" >> }

\* tables whose first column holds numbers of one of the two kinds
NumericDatasets ==
    UNION {[1..n -> {NumRec(v) : v \in PlainNumbers}]
             \cup [1..n -> {NumRec(v) : v \in FormattedNumbers}] : n \in 0..MaxNumericRows}

\* texts a user may type into the search box
SearchTerms ==
    { << >>,
      << "f","r","a","n","c","e" >>,
      << "L","Y" >>,
      << "e","i" >>,
      << " " >> }

\* failures met before the response body is awaited: fetch rejects, or the
\* response is not OK
FetchFailures == {"fetchRejected", "httpNotOk"}

\* ways the load may fail (script.js:36-51, 137-152)
LoadFailures == {"fetchRejected", "httpNotOk", "invalidJson", "noCellsArray", "noHtmlOutput"}

\* the value of the first option of the country dropdown ("All Countries")
AllCountries == << >>

VARIABLES
    phase,          \* "fetching" | "parsing" | "ready" | "failed": the async load
    container,      \* what outputContainer shows: "loading" | "table" | "error"
    engine,         \* pagination state of the table engine: [pageSize, visibleCount]
    notebook,       \* cells of the parsed notebook (notebookData.cells)
    notebookTable,  \* body rows of the table held by the notebook (the Dataset)
    extractedHtml,  \* the HTML injected into outputContainer, empty if none
    rows,           \* tbody rows in document order: [id, cells, filtered]
    dataSort,       \* data-sort attribute of each header: "none" | "asc" | "desc"
    searchValue,    \* searchFilter.value
    countryValue,   \* countryFilter.value
    countryOptions, \* values of the dropdown options after the first one
    listening,      \* TRUE once initializeTableFilters attached the handlers
    visibleCount,   \* count reported by the last applyFilters
    lastOp          \* last handler that ran: [op, col]

vars == << phase, container, engine, notebook, notebookTable, extractedHtml, rows, dataSort, searchValue, countryValue,
           countryOptions, listening, visibleCount, lastOp >>

NoOp == [op |-> "none", col |-> 0]

\* script.js reveals every matching row at once: it keeps no pagination state
NoPaging == [pageSize |-> 0, visibleCount |-> 0]

Op(name, c) == [op |-> name, col |-> c]

\* text of cell c of a row, trimmed (td.textContent.trim())
CellValue(row, c) == Trim(row.cells[c])

\* row.textContent: the cell texts one after the other
RowText(row) == Concat(row.cells)

\* index of the first header whose lower-cased text is "country", 0 if none
CountryColIndex ==
    LET hit(i) == ToLowerCase(Headers[i]) = << "c","o","u","n","t","r","y" >>
    IN  IF \E i \in Columns : hit(i)
        THEN CHOOSE i \in Columns : hit(i) /\ \A j \in 1..(i - 1) : ~hit(j)
        ELSE 0

\* ------------------------------------------------------------ applyFilters
\* applyFilters with the row text compared as written, not lower-cased
ShowRowCaseSensitive(row, searchText, selectedCountry) ==
    /\ (selectedCountry # << >> /\ CountryColIndex # 0 /\ Len(row.cells) >= CountryColIndex)
          => CellValue(row, CountryColIndex) = selectedCountry
    /\ searchText # << >> => Includes(RowText(row), searchText)

\* whether applyFilters shows a row, given the lower-cased search text and
\* the selected country
ShowRow(row, searchText, selectedCountry) ==
    LET countryOk ==
            IF selectedCountry # << >> /\ CountryColIndex # 0
            THEN ~(Len(row.cells) >= CountryColIndex
                   /\ CellValue(row, CountryColIndex) # selectedCountry)
            ELSE TRUE
        textOk ==
            IF searchText # << >>
            THEN Includes(ToLowerCase(RowText(row)), searchText)
            ELSE TRUE
    IN  countryOk /\ textOk

\* applyFilters moving the rows shown in front of the rows hidden
ApplyFiltersVisibleFirst(rs, searchBox, selectedCountry) ==
    LET marked == [i \in 1..Len(rs) |->
                    [rs[i] EXCEPT !.filtered =
                        ~ShowRow(rs[i], ToLowerCase(searchBox), selectedCountry)]]
    IN  SelectSeq(marked, LAMBDA r : ~r.filtered) \o SelectSeq(marked, LAMBDA r : r.filtered)

\* the body rows after applyFilters: same rows, same order, class "filtered"
\* removed from the rows shown and added to the others
ApplyFilters(rs, searchBox, selectedCountry) ==
    [i \in 1..Len(rs) |->
        [rs[i] EXCEPT !.filtered = ~ShowRow(rs[i], ToLowerCase(searchBox), selectedCountry)]]

\* the count applyFilters reports
CountVisible(rs) == Cardinality({i \in 1..Len(rs) : ~rs[i].filtered})

\* --------------------------------------------------------------- sortTable
\* direction sortTable gives the clicked header, from its data-sort attribute
NewDirection(attr) == IF attr = "asc" THEN "desc" ELSE "asc"

\* sortTable without the loop that removes data-sort from every header
HeadersAfterSortKeepOthers(ds, c) == [ds EXCEPT ![c] = NewDirection(ds[c])]

\* data-sort attributes after a click on header c: all removed, then c set
HeadersAfterSort(ds, c) ==
    [h \in Columns |-> IF h = c THEN NewDirection(ds[c]) ELSE "none"]

\* a comparator that always compares the values as strings
CompareValuesLexical(aValue, bValue, direction) ==
    IF direction = "asc"
    THEN LocaleCompare(aValue, bValue)
    ELSE LocaleCompare(bValue, aValue)

\* the comparator's decision on two trimmed cell values: numeric when both
\* parse as numbers, else localeCompare; operands swapped for "desc"
CompareValues(aValue, bValue, direction) ==
    LET aNum == ParseFloat(aValue)
        bNum == ParseFloat(bValue)
    IN  IF ~aNum.nan /\ ~bNum.nan
        THEN IF direction = "asc" THEN aNum.val - bNum.val ELSE bNum.val - aNum.val
        ELSE IF direction = "asc"
             THEN LocaleCompare(aValue, bValue)
             ELSE LocaleCompare(bValue, aValue)

\* the comparator handed to Array.prototype.sort
Compare(a, b, c, direction) ==
    CompareValues(CellValue(a, c), CellValue(b, c), direction)

\* a sort that places a row before the rows already placed that compare
\* equal to it
RECURSIVE InsertRowUnstable(_, _, _, _)
InsertRowUnstable(sorted, x, c, direction) ==
    IF sorted = << >> THEN << x >>
    ELSE LET last == sorted[Len(sorted)]
         IN  IF Compare(last, x, c, direction) >= 0
             THEN Append(InsertRowUnstable(SubSeq(sorted, 1, Len(sorted) - 1), x, c, direction), last)
             ELSE Append(sorted, x)

\* Array.prototype.sort is stable: a row is placed after every row already
\* placed that does not compare greater
RECURSIVE InsertRow(_, _, _, _)
InsertRow(sorted, x, c, direction) ==
    IF sorted = << >> THEN << x >>
    ELSE LET last == sorted[Len(sorted)]
         IN  IF Compare(last, x, c, direction) > 0
             THEN Append(InsertRow(SubSeq(sorted, 1, Len(sorted) - 1), x, c, direction), last)
             ELSE Append(sorted, x)

RECURSIVE SortedRows(_, _, _)
SortedRows(rs, c, direction) ==
    IF rs = << >> THEN << >>
    ELSE InsertRow(SortedRows(SubSeq(rs, 1, Len(rs) - 1), c, direction),
                   rs[Len(rs)], c, direction)

\* the comparator reads .textContent of cell c of both rows: with two or more
\* rows, a row without that cell makes it throw a TypeError, which leaves
\* sortTable after the headers were updated and before any row was moved
SortThrows(rs, c) == Len(rs) >= 2 /\ \E i \in 1..Len(rs) : Len(rs[i].cells) < c

\* elements of a sequence in reverse order
Reverse(rs) == [i \in 1..Len(rs) |-> rs[Len(rs) + 1 - i]]

\* sortTable with "desc" obtained by reversing the ascending result
RowsAfterSortReversed(rs, c, direction) ==
    IF SortThrows(rs, c) THEN rs
    ELSE IF direction = "asc" THEN SortedRows(rs, c, "asc")
    ELSE Reverse(SortedRows(rs, c, "asc"))

\* sortTable appending only the rows that are not filtered out
RowsAfterSortVisibleOnly(rs, c, direction) ==
    IF SortThrows(rs, c) THEN rs
    ELSE SelectSeq(SortedRows(rs, c, direction), LAMBDA r : ~r.filtered)

\* sortTable appending freshly built rows, which carry no class
RowsAfterSortUnfiltered(rs, c, direction) ==
    IF SortThrows(rs, c) THEN rs
    ELSE [i \in 1..Len(rs) |-> [SortedRows(rs, c, direction)[i] EXCEPT !.filtered = FALSE]]

\* sortTable appending the sorted rows that are shown before the hidden ones
RowsAfterSortHiddenLast(rs, c, direction) ==
    IF SortThrows(rs, c) THEN rs
    ELSE SelectSeq(SortedRows(rs, c, direction), LAMBDA r : ~r.filtered)
            \o SelectSeq(SortedRows(rs, c, direction), LAMBDA r : r.filtered)

\* the body rows after sortTable(c): removed and appended again in sorted order
RowsAfterSort(rs, c, direction) ==
    IF SortThrows(rs, c) THEN rs ELSE SortedRows(rs, c, direction)

\* --------------------------------------------------- populateCountryFilter
RECURSIVE SortStrings(_)
SortStrings(S) ==
    IF S = {} THEN << >>
    ELSE LET m == CHOOSE x \in S : \A y \in S : CodeUnitCompare(x, y) <= 0
         IN  << m >> \o SortStrings(S \ {m})

\* the options populateCountryFilter adds after "All Countries"
PopulateCountryFilter(rs) ==
    IF CountryColIndex = 0 THEN << >>
    ELSE SortStrings({CellValue(rs[i], CountryColIndex) :
                        i \in {j \in 1..Len(rs) :
                                 /\ Len(rs[j].cells) >= CountryColIndex
                                 /\ CellValue(rs[j], CountryColIndex) # << >>}})

\* ------------------------------------------------------ notebook cell scan
\* the substring an output must contain to be taken
TARGET_HTML_SUBSTRING == << "<","t","a","b","l","e"," " >>

\* String.prototype.startsWith
StartsWith(s, t) == Len(s) >= Len(t) /\ SubSeq(s, 1, Len(t)) = t

\* a stream output; text is the array of strings of output.text
StreamOutput(name, text) ==
    [output_type |-> "stream", name |-> name, text |-> text, hasHtml |-> FALSE, html |-> << >>]

\* a display_data output whose data holds a text/html value
HtmlOutput(html) ==
    [output_type |-> "display_data", name |-> "", text |-> << >>, hasHtml |-> TRUE, html |-> html]

\* a display_data output whose data holds no text/html value (an image)
ImageOutput ==
    [output_type |-> "display_data", name |-> "", text |-> << >>, hasHtml |-> FALSE, html |-> << >>]

\* stdout: " <table >" printed in two pieces; passes both checks
StdoutTable ==
    StreamOutput("stdout", << << " ","<","t","a","b","l","e"," " >>, << ">" >> >>)

\* stdout: "x<table >"; holds the substring but does not start with "<"
StdoutText ==
    StreamOutput("stdout", << << "x","<","t","a","b","l","e"," ",">" >> >>)

\* stderr: "<table >e"
StderrTable ==
    StreamOutput("stderr", << << "<","t","a","b","l","e"," ",">","e" >> >>)

\* text/html: "d<table "; holds the substring, has no ">"
DisplayTable == HtmlOutput(<< << "d" >>, << "<","t","a","b","l","e"," " >> >>)

\* text/html: "<p>"; lacks the substring
DisplayOther == HtmlOutput(<< << "<","p",">" >> >>)

Outputs == {StdoutTable, StdoutText, StderrTable, DisplayTable, DisplayOther, ImageOutput}

\* largest number of cells of a notebook
MaxCells == 2

\* the cells: code cells with no output, one output or two different
\* outputs, and a markdown cell that carries an output
Cells ==
    {[cell_type |-> "code", outputs |-> << >>]}
    \cup {[cell_type |-> "code", outputs |-> << o >>] : o \in Outputs}
    \cup {[cell_type |-> "code", outputs |-> << o[1], o[2] >>] :
            o \in {q \in Outputs \X Outputs : q[1] # q[2]}}
    \cup {[cell_type |-> "markdown", outputs |-> << StdoutTable >>]}

Notebooks == UNION {[1..n -> Cells] : n \in 0..MaxCells}

\* the notebook whose only output is the table
TableNotebook == << [cell_type |-> "code", outputs |-> << StdoutTable >>] >>

\* a notebook without any output
NoOutputNotebook == << [cell_type |-> "code", outputs |-> << >>] >>

\* the scan before anything was found: htmlFound false, extractedHtml ''
NotFound == [htmlFound |-> FALSE, extractedHtml |-> << >>]

\* the two checks of the inner loop on one output
CheckOutput(output) ==
    IF output.output_type = "stream" /\ output.name = "stdout"
    THEN LET textContent == Concat(output.text)
             isHtmlLike == StartsWith(Trim(textContent), << "<" >>)
                              /\ Includes(textContent, << ">" >>)
             hasSubstring == Includes(textContent, TARGET_HTML_SUBSTRING)
         IN  IF isHtmlLike /\ hasSubstring
             THEN [htmlFound |-> TRUE, extractedHtml |-> textContent]
             ELSE NotFound
    ELSE IF output.output_type = "display_data" /\ output.hasHtml
    THEN LET htmlContent == Concat(output.html)
         IN  IF Includes(htmlContent, TARGET_HTML_SUBSTRING)
             THEN [htmlFound |-> TRUE, extractedHtml |-> htmlContent]
             ELSE NotFound
    ELSE NotFound

\* an inner loop without the break: the last output that passes is kept
RECURSIVE ScanOutputsNoBreak(_)
ScanOutputsNoBreak(outputs) ==
    IF outputs = << >> THEN NotFound
    ELSE LET later == ScanOutputsNoBreak(Tail(outputs))
         IN  IF later.htmlFound THEN later ELSE CheckOutput(Head(outputs))

\* the inner loop over the outputs of one cell, left at the first hit
RECURSIVE ScanOutputs(_)
ScanOutputs(outputs) ==
    IF outputs = << >> THEN NotFound
    ELSE LET found == CheckOutput(Head(outputs))
         IN  IF found.htmlFound THEN found ELSE ScanOutputs(Tail(outputs))

\* the outer loop over the cells, left once an output was taken
RECURSIVE ScanCells(_)
ScanCells(cells) ==
    IF cells = << >> THEN NotFound
    ELSE LET found == IF Head(cells).cell_type = "code"
                      THEN ScanOutputs(Head(cells).outputs)
                      ELSE NotFound
         IN  IF found.htmlFound THEN found ELSE ScanCells(Tail(cells))

\* the condition of the final injection step
Injectable(cells) ==
    ScanCells(cells).htmlFound /\ Len(Trim(ScanCells(cells).extractedHtml)) > 0

\* ---------------------------------------------------------------- actions
\* a page that attaches its handlers before the notebook is fetched
InitForListening(tables) ==
    /\ phase = "fetching"
    /\ container = "loading"
    /\ engine = NoPaging
    /\ notebookTable \in tables
    /\ notebook \in IF notebookTable = << >>
                    THEN {TableNotebook, NoOutputNotebook}
                    ELSE {TableNotebook}
    /\ extractedHtml = << >>
    /\ rows = << >>
    /\ dataSort = [h \in Columns |-> "none"]
    /\ searchValue = << >>
    /\ countryValue = AllCountries
    /\ countryOptions = << >>
    /\ listening = TRUE
    /\ visibleCount = 0
    /\ lastOp = NoOp

\* the state while the notebook is being fetched, for a set of possible tables
InitFor(tables) ==
    /\ phase = "fetching"
    /\ container = "loading"
    /\ engine = NoPaging
    /\ notebookTable \in tables
    /\ notebook \in IF notebookTable = << >>
                    THEN {TableNotebook, NoOutputNotebook}
                    ELSE {TableNotebook}
    /\ extractedHtml = << >>
    /\ rows = << >>
    /\ dataSort = [h \in Columns |-> "none"]
    /\ searchValue = << >>
    /\ countryValue = AllCountries
    /\ countryOptions = << >>
    /\ listening = FALSE
    /\ visibleCount = 0
    /\ lastOp = NoOp

Init == InitFor(Datasets)

\* the user edits the search box while no input handler is attached
TypeUnheard(t) ==
    /\ ~listening
    /\ searchValue # t
    /\ searchValue' = t
    /\ UNCHANGED << phase, container, engine, notebook, notebookTable, extractedHtml, rows, dataSort,
                    countryValue, countryOptions, listening, visibleCount, lastOp >>

\* fetch resolves with an OK response: the handler goes on to await the body
FetchResolved ==
    /\ phase = "fetching"
    /\ phase' = "parsing"
    /\ UNCHANGED << container, engine, notebook, notebookTable, extractedHtml, rows, dataSort, searchValue,
                    countryValue, countryOptions, listening, visibleCount, lastOp >>

\* the load succeeds: the table is injected and initializeTableFilters runs
InjectTable ==
    /\ phase = "parsing"
    /\ Injectable(notebook)
    /\ extractedHtml' = ScanCells(notebook).extractedHtml
    /\ phase' = "ready"
    /\ container' = "table"
    /\ rows' = [i \in 1..Len(notebookTable) |->
                  [id |-> i, cells |-> notebookTable[i], filtered |-> FALSE]]
    /\ dataSort' = [h \in Columns |-> "none"]
    /\ countryOptions' = PopulateCountryFilter(rows')
    /\ listening' = TRUE
    /\ lastOp' = Op("initializeTableFilters", 0)
    /\ UNCHANGED << engine, notebook, notebookTable, searchValue, countryValue, visibleCount >>

\* a failure path that runs initializeTableFilters before giving up
LoadFailedListening(f) ==
    /\ phase = IF f \in FetchFailures THEN "fetching" ELSE "parsing"
    /\ f = "noHtmlOutput" => ~Injectable(notebook)
    /\ phase' = "failed"
    /\ container' = "error"
    /\ listening' = TRUE
    /\ lastOp' = Op(f, 0)
    /\ UNCHANGED << engine, notebook, notebookTable, extractedHtml, rows, dataSort, searchValue, countryValue,
                    countryOptions, visibleCount >>

\* the load fails: an error message replaces the loading message
LoadFailed(f) ==
    /\ phase = IF f \in FetchFailures THEN "fetching" ELSE "parsing"
    /\ f = "noHtmlOutput" => ~Injectable(notebook)
    /\ phase' = "failed"
    /\ container' = "error"
    /\ lastOp' = Op(f, 0)
    /\ UNCHANGED << engine, notebook, notebookTable, extractedHtml, rows, dataSort, searchValue, countryValue,
                    countryOptions, listening, visibleCount >>

\* input event of the search box: the box holds t, applyFilters runs
SearchInput(t) ==
    /\ listening
    /\ searchValue' = t
    /\ rows' = ApplyFilters(rows, t, countryValue)
    /\ visibleCount' = CountVisible(rows')
    /\ lastOp' = Op("searchInput", 0)
    /\ UNCHANGED << phase, container, engine, notebook, notebookTable, extractedHtml, dataSort, countryValue,
                    countryOptions, listening >>

\* change event of the country dropdown: option k selected, applyFilters runs
CountryChange(k) ==
    /\ listening
    /\ countryValue' = k
    /\ rows' = ApplyFilters(rows, searchValue, k)
    /\ visibleCount' = CountVisible(rows')
    /\ lastOp' = Op("countryChange", 0)
    /\ UNCHANGED << phase, container, engine, notebook, notebookTable, extractedHtml, dataSort, searchValue,
                    countryOptions, listening >>

\* a reset that also puts the rows back in the order they were loaded in
RowsAfterResetLoadOrder(rs) ==
    [i \in 1..Len(rs) |->
        [(CHOOSE r \in {rs[j] : j \in 1..Len(rs)} : r.id = i) EXCEPT !.filtered = FALSE]]

\* the rows after resetFilters: class "filtered" removed from every row
RowsAfterReset(rs) == [i \in 1..Len(rs) |-> [rs[i] EXCEPT !.filtered = FALSE]]

\* click on the reset button
ResetFilters ==
    /\ listening
    /\ searchValue' = << >>
    /\ countryValue' = AllCountries
    /\ rows' = RowsAfterReset(rows)
    /\ lastOp' = Op("resetFilters", 0)
    /\ UNCHANGED << phase, container, engine, notebook, notebookTable, extractedHtml, dataSort,
                    countryOptions, listening, visibleCount >>

\* click on header c
SortTable(c) ==
    /\ listening
    /\ dataSort' = HeadersAfterSort(dataSort, c)
    /\ rows' = RowsAfterSort(rows, c, NewDirection(dataSort[c]))
    /\ lastOp' = Op("sortTable", c)
    /\ UNCHANGED << phase, container, engine, notebook, notebookTable, extractedHtml, searchValue,
                    countryValue, countryOptions, listening, visibleCount >>

Next ==
    \/ \E t \in SearchTerms : TypeUnheard(t)
    \/ FetchResolved
    \/ InjectTable
    \/ \E f \in LoadFailures : LoadFailed(f)
    \/ \E t \in SearchTerms : SearchInput(t)
    \/ \E k \in {AllCountries} \cup {countryOptions[i] : i \in 1..Len(countryOptions)} :
          CountryChange(k)
    \/ ResetFilters
    \/ \E c \in Columns : SortTable(c)

Spec == Init /\ [][Next]_vars

\* the behaviours in which every row of the table has a cell for every column
\* and the search box is left alone until the handlers are attached
InitFullRows ==
    /\ Init
    /\ \A i \in 1..Len(notebookTable) : Len(notebookTable[i]) = Len(Headers)

NextFullRows ==
    \/ FetchResolved
    \/ InjectTable
    \/ \E f \in LoadFailures : LoadFailed(f)
    \/ \E t \in SearchTerms : SearchInput(t)
    \/ \E k \in {AllCountries} \cup {countryOptions[i] : i \in 1..Len(countryOptions)} :
          CountryChange(k)
    \/ ResetFilters
    \/ \E c \in Columns : SortTable(c)

SpecFullRows == InitFullRows /\ [][NextFullRows]_vars

\* the behaviours of loading and sorting a table of numbers
InitNumeric == InitFor(NumericDatasets)

NextNumeric ==
    \/ FetchResolved
    \/ InjectTable
    \/ \E f \in LoadFailures : LoadFailed(f)
    \/ ResetFilters
    \/ \E c \in Columns : SortTable(c)

SpecNumeric == InitNumeric /\ [][NextNumeric]_vars

TypeOK ==
    /\ phase \in {"fetching", "parsing", "ready", "failed"}
    /\ container \in {"loading", "table", "error"}
    /\ listening = (phase = "ready")
    /\ Len(rows) <= MaxRows

\* records of the tables on which a filter and a sort are run in both
\* orders: two countries, a row without Country cell, padded cell texts
MixedRecords == {RecA, RecC, RecD, RecE}

\* tables of distinct such records in any order
MixedTables ==
    {t \in UNION {[1..n -> MixedRecords] : n \in 0..(Cardinality(MixedRecords) - 1)} :
        \A i, j \in 1..Len(t) : t[i] = t[j] => i = j}

\* the behaviours of loading one of these tables and working on it
InitMixed == InitFor(MixedTables)

NextMixed ==
    \/ FetchResolved
    \/ InjectTable
    \/ \E f \in LoadFailures : LoadFailed(f)
    \/ \E t \in SearchTerms : SearchInput(t)
    \/ \E k \in {AllCountries} \cup {countryOptions[i] : i \in 1..Len(countryOptions)} :
          CountryChange(k)
    \/ ResetFilters
    \/ \E c \in Columns : SortTable(c)

SpecMixed == InitMixed /\ [][NextMixed]_vars

\* the behaviours of loading a notebook, as far as its cells decide them
InitExtract ==
    /\ phase = "fetching"
    /\ container = "loading"
    /\ engine = NoPaging
    /\ notebook \in Notebooks
    /\ notebookTable = << >>
    /\ extractedHtml = << >>
    /\ rows = << >>
    /\ dataSort = [h \in Columns |-> "none"]
    /\ searchValue = << >>
    /\ countryValue = AllCountries
    /\ countryOptions = << >>
    /\ listening = FALSE
    /\ visibleCount = 0
    /\ lastOp = NoOp

NextExtract ==
    \/ FetchResolved
    \/ InjectTable
    \/ \E f \in LoadFailures : LoadFailed(f)

SpecExtract == InitExtract /\ [][NextExtract]_vars

\* ------------------------------------------------- the paging table engine
\* the smaller of two numbers
Min(a, b) == IF a <= b THEN a ELSE b

\* a count, or 1 for an empty table
Max1(n) == IF n >= 1 THEN n ELSE 1

\* page sizes a deployment may fix
PageSizes == {1, 2}

\* the records of the engine's datasets
EngineRecords == {RecA, RecB, RecC}

\* the datasets handed to the engine: distinct records in any order
EngineDatasets ==
    {t \in UNION {[1..n -> EngineRecords] : n \in 0..Cardinality(EngineRecords)} :
        \A i, j \in 1..Len(t) : t[i] = t[j] => i = j}

\* the rows matching the filter, in their sorted order
RECURSIVE Matched(_)
Matched(rs) ==
    IF rs = << >> THEN << >>
    ELSE (IF Head(rs).filtered THEN << >> ELSE << Head(rs) >>) \o Matched(Tail(rs))

\* a visible set holding the current page only
CurrentVisibleSetPage(rs, eng) ==
    LET m == Matched(rs)
        n == Min(eng.visibleCount * eng.pageSize, Len(m))
        w == SubSeq(m, (eng.visibleCount - 1) * eng.pageSize + 1, n)
    IN  [rows         |-> [i \in 1..Len(w) |-> w[i].id],
         totalMatched |-> Len(m),
         hasMore      |-> eng.visibleCount * eng.pageSize < Len(m)]

\* currentVisibleSet(): filter, sort, take the first visibleCount x pageSize
CurrentVisibleSet(rs, eng) ==
    LET m == Matched(rs)
        n == Min(eng.visibleCount * eng.pageSize, Len(m))
        w == SubSeq(m, 1, n)
    IN  [rows         |-> [i \in 1..Len(w) |-> w[i].id],
         totalMatched |-> Len(m),
         hasMore      |-> eng.visibleCount * eng.pageSize < Len(m)]

\* the engine after construction and load: defaults, one page revealed
InitEngine ==
    /\ phase = "ready"
    /\ container = "table"
    /\ engine \in [pageSize : PageSizes, visibleCount : {1}]
    /\ notebook = TableNotebook
    /\ notebookTable \in EngineDatasets
    /\ extractedHtml = ScanCells(notebook).extractedHtml
    /\ rows = [i \in 1..Len(notebookTable) |->
                 [id |-> i, cells |-> notebookTable[i], filtered |-> FALSE]]
    /\ dataSort = [h \in Columns |-> "none"]
    /\ searchValue = << >>
    /\ countryValue = AllCountries
    /\ countryOptions = PopulateCountryFilter(rows)
    /\ listening = TRUE
    /\ visibleCount = Len(notebookTable)
    /\ lastOp = NoOp

\* setFilter(t): the term is stored, the rows are matched again and the
\* paging restarts at one page
SetFilter(t) ==
    /\ searchValue' = t
    /\ rows' = ApplyFilters(rows, t, countryValue)
    /\ visibleCount' = CountVisible(rows')
    /\ engine' = [engine EXCEPT !.visibleCount = 1]
    /\ lastOp' = Op("setFilter", 0)
    /\ UNCHANGED << phase, container, notebook, notebookTable, extractedHtml, dataSort, countryValue,
                    countryOptions, listening >>

\* a showMore that reveals a page even when none remains
ShowMoreUnguarded ==
    /\ engine' = [engine EXCEPT !.visibleCount = @ + 1]
    /\ lastOp' = Op("showMore", 0)
    /\ UNCHANGED << phase, container, notebook, notebookTable, extractedHtml, rows, dataSort, searchValue,
                    countryValue, countryOptions, listening, visibleCount >>

\* showMore(): one more page is revealed, unless every row is already shown
ShowMore ==
    /\ engine' = IF CurrentVisibleSet(rows, engine).hasMore
                 THEN [engine EXCEPT !.visibleCount = @ + 1]
                 ELSE engine
    /\ lastOp' = Op("showMore", 0)
    /\ UNCHANGED << phase, container, notebook, notebookTable, extractedHtml, rows, dataSort, searchValue,
                    countryValue, countryOptions, listening, visibleCount >>

\* the search terms given to setFilter
EngineTerms == { << >>, << "f","r","a","n","c","e" >> }

NextEngine ==
    \/ \E t \in EngineTerms : SetFilter(t)
    \/ \E c \in Columns : SortTable(c)
    \/ ShowMore

SpecEngine == InitEngine /\ [][NextEngine]_vars

\* ================================================================= claims
\* ids of the rows shown, in document order
RECURSIVE VisibleIds(_)
VisibleIds(rs) ==
    IF rs = << >> THEN << >>
    ELSE (IF Head(rs).filtered THEN << >> ELSE << Head(rs).id >>) \o VisibleIds(Tail(rs))

\* ids of all rows, in document order
RowIds(rs) == [i \in 1..Len(rs) |-> rs[i].id]

\* value of field c of a record, the empty string when the record lacks it
FieldValue(row, c) == IF Len(row.cells) >= c THEN Trim(row.cells[c]) ELSE << >>

\* the term occurs, without regard to case, in the record's field values
\* written one after the other
TermMatches(row, t) == Includes(ToLowerCase(Concat(row.cells)), ToLowerCase(t))

\* the columns whose header carries a data-sort attribute
ActiveColumns(ds) == {h \in Columns : ds[h] # "none"}

\* the step is a run of sortTable on column c
SortStep(c) == lastOp' = Op("sortTable", c) /\ SortTable(c)

\* the step is a run of applyFilters, from the search box or the dropdown
FilterStep ==
    \/ lastOp'.op = "searchInput" /\ SearchInput(searchValue')
    \/ lastOp'.op = "countryChange" /\ CountryChange(countryValue')

\* C1: after a search input with no country selected, a record is visible
\* exactly when the lower-cased term is a substring of the lower-cased
\* concatenation of its field values (so the empty term shows every record),
\* and the reported count is the number of visible records.
C1_SearchShowsExactlyMatches ==
    (lastOp.op = "searchInput" /\ countryValue = AllCountries) =>
        /\ \A i \in 1..Len(rows) : ~rows[i].filtered <=> TermMatches(rows[i], searchValue)
        /\ searchValue = << >> => \A i \in 1..Len(rows) : ~rows[i].filtered
        /\ visibleCount = Len(VisibleIds(rows))

\* a search for "france" has just shown one record and hidden another
C1_Witness ==
    /\ lastOp.op = "searchInput"
    /\ countryValue = AllCountries
    /\ searchValue = << "f","r","a","n","c","e" >>
    /\ \E i, j \in 1..Len(rows) : ~rows[i].filtered /\ rows[j].filtered

\* C2: a click on header c makes c the only active column, ascending when c
\* was not active and with the direction flipped when it was; no step takes
\* the table back to "no column active", and at most one column is active.
C2_ToggleRule ==
    [][ /\ Cardinality(ActiveColumns(dataSort')) <= 1
        /\ ActiveColumns(dataSort) # {} => ActiveColumns(dataSort') # {}
        /\ \A c \in Columns : SortStep(c) =>
             /\ ActiveColumns(dataSort') = {c}
             /\ dataSort[c] = "none" => dataSort'[c] = "asc"
             /\ dataSort[c] = "asc" => dataSort'[c] = "desc"
             /\ dataSort[c] = "desc" => dataSort'[c] = "asc" ]_vars

\* the clicked column has just been flipped to descending
C2_Witness ==
    /\ lastOp.op = "sortTable"
    /\ dataSort[lastOp.col] = "desc"
    /\ Len(rows) >= 2

\* position of the row with the given id
PosOf(rs, id) == CHOOSE i \in 1..Len(rs) : rs[i].id = id

\* the comparator's verdict on field c of two records, ascending
KeyCompare(a, b, c) == CompareValues(FieldValue(a, c), FieldValue(b, c), "asc")

\* two different records tie on column c and no row lacks that column
HasTie(rs, c) ==
    /\ ~SortThrows(rs, c)
    /\ \E i, j \in 1..Len(rs) :
          i < j /\ KeyCompare(rs[i], rs[j], c) = 0 /\ rs[i].cells # rs[j].cells

\* C3: while column c is the active sort column, the whole row sequence is
\* ordered on c: non-decreasing under the comparator when ascending,
\* non-increasing when descending.
C3_RowsOrderedOnActiveColumn ==
    \A c \in Columns : \A i, j \in 1..Len(rows) :
        (dataSort[c] # "none" /\ i < j) =>
            IF dataSort[c] = "asc"
            THEN KeyCompare(rows[i], rows[j], c) <= 0
            ELSE KeyCompare(rows[i], rows[j], c) >= 0

\* C4: a sort in either direction keeps the relative order of any two
\* records whose values in the sorted column compare equal.
C4_SortIsStable ==
    [][ \A c \in Columns : SortStep(c) =>
          \A i, j \in 1..Len(rows) :
              (i < j /\ KeyCompare(rows[i], rows[j], c) = 0) =>
                  PosOf(rows', rows[i].id) < PosOf(rows', rows[j].id) ]_vars

\* a descending sort has just run over rows that tie on the sorted column
C4_Witness ==
    /\ lastOp.op = "sortTable"
    /\ dataSort[lastOp.col] = "desc"
    /\ HasTie(rows, lastOp.col)

\* a record matches the filter controls: the search text occurs in it and,
\* when a country is selected, its country value is that country
MatchesControls(row, t, k) ==
    /\ TermMatches(row, t)
    /\ k # AllCountries => FieldValue(row, CountryColIndex) = k

\* C5: whenever the table is displayed, the visible rows are exactly the
\* records matching the current search text and selected country.
C5_VisibleIsFilterOfControls ==
    phase = "ready" =>
        \A i \in 1..Len(rows) :
            ~rows[i].filtered <=> MatchesControls(rows[i], searchValue, countryValue)

\* C6: the table always holds exactly the records that were loaded, each
\* once and with its cells unchanged; only order and visibility differ.
C6_DatasetNotMutated ==
    phase = "ready" =>
        /\ Len(rows) = Len(notebookTable)
        /\ {rows[i].id : i \in 1..Len(rows)} = 1..Len(notebookTable)
        /\ \A i \in 1..Len(rows) : rows[i].cells = notebookTable[rows[i].id]

\* rows were reordered by a sort while one of them is hidden
C6_Witness ==
    /\ lastOp.op = "sortTable"
    /\ Len(rows) >= 2
    /\ RowIds(rows) # [i \in 1..Len(rows) |-> i]
    /\ \E i \in 1..Len(rows) : rows[i].filtered

\* the rows as injected from a dataset
LoadedRows(D) == [i \in 1..Len(D) |-> [id |-> i, cells |-> D[i], filtered |-> FALSE]]

\* the rows shown by the shortest history that reaches a ViewState from the
\* loaded dataset: the clicks needed on the active header, then the filter
ViewOf(D, ds, t, k) ==
    LET c == CHOOSE h \in Columns : ds[h] # "none"
        asc == RowsAfterSort(LoadedRows(D), c, "asc")
        ordered == IF ActiveColumns(ds) = {} THEN LoadedRows(D)
                   ELSE IF ds[c] = "asc" THEN asc
                   ELSE RowsAfterSort(asc, c, "desc")
    IN  VisibleIds(ApplyFilters(ordered, t, k))

\* C7: the visible row sequence is a function of the Dataset and the
\* ViewState alone: every history ending in a ViewState shows the rows that
\* the shortest history to that ViewState shows.
C7_ViewDeterminedByViewState ==
    phase = "ready" =>
        VisibleIds(rows) = ViewOf(notebookTable, dataSort, searchValue, countryValue)

\* C8: a sort leaves the search text, the selected country, the set of
\* visible records and the reported count as they were.
C8_SortKeepsFilter ==
    [][ \A c \in Columns : SortStep(c) =>
          /\ searchValue' = searchValue
          /\ countryValue' = countryValue
          /\ visibleCount' = visibleCount
          /\ {rows'[i].id : i \in 1..Len(rows')} = {rows[i].id : i \in 1..Len(rows)}
          /\ \A i \in 1..Len(rows) :
                \E j \in 1..Len(rows') :
                    rows'[j].id = rows[i].id /\ rows'[j].filtered = rows[i].filtered ]_vars

\* a sort has just reordered the rows while a search hides one of them
C8_Witness ==
    /\ lastOp.op = "sortTable"
    /\ searchValue # << >>
    /\ RowIds(rows) # [i \in 1..Len(rows) |-> i]
    /\ \E i, j \in 1..Len(rows) : rows[i].filtered /\ ~rows[j].filtered

\* C9: a filter change leaves the sort column and direction as they were and
\* keeps the relative order of any two records.
C9_FilterKeepsSort ==
    [][ FilterStep =>
          /\ dataSort' = dataSort
          /\ RowIds(rows') = RowIds(rows) ]_vars

\* a filter change has just hidden a row of a table sorted descending
C9_Witness ==
    /\ lastOp.op \in {"searchInput", "countryChange"}
    /\ \E c \in Columns : dataSort[c] = "desc"
    /\ RowIds(rows) # [i \in 1..Len(rows) |-> i]
    /\ \E i, j \in 1..Len(rows) : rows[i].filtered /\ ~rows[j].filtered

\* C10: after a click on the active column c, one more click on c restores
\* the direction and the exact row sequence held before the first click.
C10_DoubleToggleRestores ==
    [][ \A c \in Columns : (SortStep(c) /\ dataSort[c] # "none") =>
          /\ HeadersAfterSort(dataSort', c) = dataSort
          /\ RowsAfterSort(rows', c, NewDirection(dataSort'[c])) = rows ]_vars

\* the active column has just been clicked again over rows that tie on it
C10_Witness ==
    /\ lastOp.op = "sortTable"
    /\ dataSort[lastOp.col] = "asc"
    /\ HasTie(rows, lastOp.col)
    /\ RowIds(rows) # [i \in 1..Len(rows) |-> i]

\* the string is a number written with digits only
IsNumeral(v) == v # << >> /\ \A i \in 1..Len(v) : IsDigit[v[i]]

\* values of column c, row by row
ColumnValues(rs, c) == [i \in 1..Len(rs) |-> FieldValue(rs[i], c)]

\* the values "10", "2", "1" of the numeric scenario and their sorted forms
Scenario_10_2_1 == << << "1","0" >>, << "2" >>, << "1" >> >>

Scenario_1_2_10 == << << "1" >>, << "2" >>, << "1","0" >> >>

\* C11: rows whose values in the sorted column are numbers are ordered by
\* numeric value, not character by character; a column holding "10", "2",
\* "1" sorts ascending to "1", "2", "10" and descending to "10", "2", "1".
C11_NumbersOrderedByValue ==
    /\ \A c \in Columns : \A i, j \in 1..Len(rows) :
          (/\ dataSort[c] # "none" /\ i < j
           /\ IsNumeral(FieldValue(rows[i], c)) /\ IsNumeral(FieldValue(rows[j], c))) =>
              IF dataSort[c] = "asc"
              THEN DigitsValue(FieldValue(rows[i], c), 0) <= DigitsValue(FieldValue(rows[j], c), 0)
              ELSE DigitsValue(FieldValue(rows[i], c), 0) >= DigitsValue(FieldValue(rows[j], c), 0)
    /\ [i \in 1..Len(notebookTable) |-> notebookTable[i][1]] = Scenario_10_2_1 =>
          /\ dataSort[1] = "asc" => ColumnValues(rows, 1) = Scenario_1_2_10
          /\ dataSort[1] = "desc" => ColumnValues(rows, 1) = Scenario_10_2_1

\* the column "10", "2", "1" has just been sorted ascending
C11_Witness ==
    /\ lastOp = Op("sortTable", 1)
    /\ dataSort[1] = "asc"
    /\ [i \in 1..Len(notebookTable) |-> notebookTable[i][1]] = Scenario_10_2_1
    /\ ColumnValues(rows, 1) = Scenario_1_2_10

\* a value without its thousands separators and currency symbols
StripFormat(v) == SelectSeq(v, LAMBDA ch : ch \notin {",", "$"})

\* C12: values that are numbers once thousands separators and currency
\* symbols are stripped are ordered by that numeric value.
C12_FormattedNumbersOrderedByValue ==
    \A c \in Columns : \A i, j \in 1..Len(rows) :
        (/\ dataSort[c] # "none" /\ i < j
         /\ IsNumeral(StripFormat(FieldValue(rows[i], c)))
         /\ IsNumeral(StripFormat(FieldValue(rows[j], c)))) =>
            LET vi == DigitsValue(StripFormat(FieldValue(rows[i], c)), 0)
                vj == DigitsValue(StripFormat(FieldValue(rows[j], c)), 0)
            IN  IF dataSort[c] = "asc" THEN vi <= vj ELSE vi >= vj

\* C13: blanks around the search term do not matter: after a search input
\* with no country selected the visible records are those matching the
\* trimmed term, so a term made of blanks only shows every record.
C13_TermWhitespaceIrrelevant ==
    (lastOp.op = "searchInput" /\ countryValue = AllCountries) =>
        \A i \in 1..Len(rows) : ~rows[i].filtered <=> TermMatches(rows[i], Trim(searchValue))

\* C14: on a table in which some row lacks a cell, a sort on any column
\* completes without an error and leaves the rows ordered on that column,
\* the absent value counting as the empty string.
C14_SortTotalOnShortRows ==
    lastOp.op = "sortTable" =>
        /\ ~SortThrows(rows, lastOp.col)
        /\ \A i, j \in 1..Len(rows) :
              i < j => IF dataSort[lastOp.col] = "asc"
                       THEN KeyCompare(rows[i], rows[j], lastOp.col) <= 0
                       ELSE KeyCompare(rows[i], rows[j], lastOp.col) >= 0

\* the operations the handlers attached by initializeTableFilters perform
TableOps == {"sortTable", "searchInput", "countryChange", "resetFilters"}

C16_NoOperationBeforeLoad ==
    [][ /\ lastOp'.op \in TableOps =>
              phase = "ready" /\ container = "table" /\ Len(rows) = Len(notebookTable)
        /\ listening' => phase' = "ready" /\ container' = "table"
        /\ phase' \in {"fetching", "parsing"} =>
              /\ rows' = << >>
              /\ ActiveColumns(dataSort') = {}
              /\ visibleCount' = 0
              /\ lastOp' = NoOp ]_vars

\* an operation has run on the injected table
C16_Witness ==
    /\ lastOp.op \in TableOps
    /\ phase = "ready"
    /\ Len(rows) >= 2

\* C17: when fetching the data fails, the embedded fallback dataset is used,
\* so the table is still shown and its handlers are attached.
C17_FallbackOnFetchFailure ==
    lastOp.op \in FetchFailures => container = "table" /\ listening

\* a step of showMore
ShowMoreStep == lastOp' = Op("showMore", 0) /\ ShowMore

\* sequence s is an initial part of sequence t
IsPrefix(s, t) == Len(s) <= Len(t) /\ SubSeq(t, 1, Len(s)) = s

\* C18: with page size p and m matching rows, the rows shown are the first
\* min(visibleCount x p, m) of the filtered and sorted sequence and hasMore
\* holds exactly when rows remain unrevealed; a showMore reveals one page
\* more, and changes nothing when every row is already shown (p = 1, m = 3:
\* 1, 2, 3 and again 3 rows).
C18_PaginationBound ==
    /\ [](LET v == CurrentVisibleSet(rows, engine)
          IN  /\ v.totalMatched = CountVisible(rows)
              /\ Len(v.rows) = Min(engine.visibleCount * engine.pageSize, v.totalMatched)
              /\ IsPrefix(v.rows, VisibleIds(rows))
              /\ v.hasMore <=> Len(v.rows) < v.totalMatched
              /\ engine.visibleCount >= 1
              /\ (engine.visibleCount - 1) * engine.pageSize < Max1(v.totalMatched))
    /\ [][ ShowMoreStep =>
             LET before == CurrentVisibleSet(rows, engine)
                 after  == CurrentVisibleSet(rows', engine')
             IN  /\ ~before.hasMore => UNCHANGED << engine, rows, dataSort, searchValue >>
                 /\ Len(after.rows) =
                       Min(Len(before.rows) + engine.pageSize, before.totalMatched) ]_vars

\* page size 1, three matching rows, all three revealed by showMore
C18_Witness ==
    /\ engine = [pageSize |-> 1, visibleCount |-> 3]
    /\ lastOp.op = "showMore"
    /\ CurrentVisibleSet(rows, engine).totalMatched = 3
    /\ Len(CurrentVisibleSet(rows, engine).rows) = 3
    /\ ~CurrentVisibleSet(rows, engine).hasMore

\* C19: a showMore keeps the rows shown before it as the initial part of the
\* rows shown after it, and leaves the order of the rows, the rows matched,
\* the sort state and the term as they were.
C19_ShowMoreAdditive ==
    [][ ShowMoreStep =>
          /\ IsPrefix(CurrentVisibleSet(rows, engine).rows,
                      CurrentVisibleSet(rows', engine').rows)
          /\ rows' = rows
          /\ dataSort' = dataSort
          /\ searchValue' = searchValue ]_vars

\* a second page revealed under a term and a sort column
C19_Witness ==
    /\ lastOp.op = "showMore"
    /\ engine.visibleCount >= 2
    /\ Len(CurrentVisibleSet(rows, engine).rows) >= 2
    /\ searchValue # << >>
    /\ ActiveColumns(dataSort) # {}

\* the trimmed country value of a row, empty when the row has no such cell
CountryOf(row) == FieldValue(row, CountryColIndex)

\* C20: after a change of the term or of the country, a row is shown exactly
\* when its trimmed country value equals the selected country (any country
\* under 'all countries') and its text contains the lower-cased term; and
\* each option after 'all countries' is the country value of some loaded
\* row and is offered once.
C20_CountryAndTermConjunction ==
    /\ lastOp.op \in {"searchInput", "countryChange"} =>
          \A i \in 1..Len(rows) :
              ~rows[i].filtered <=>
                  /\ countryValue # AllCountries => CountryOf(rows[i]) = countryValue
                  /\ Includes(ToLowerCase(RowText(rows[i])), ToLowerCase(searchValue))
    /\ \A n \in 1..Len(countryOptions) :
          /\ countryOptions[n] # AllCountries
          /\ \E i \in 1..Len(rows) : CountryOf(rows[i]) = countryOptions[n]
          /\ \A k \in 1..Len(countryOptions) : countryOptions[k] = countryOptions[n] => k = n

\* the step is a run of resetFilters
ResetStep == lastOp' = Op("resetFilters", 0) /\ ResetFilters

\* C21: a reset empties the search box and the country selection and shows
\* every row, and leaves the sort column, its direction and the order of the
\* rows as they were.
C21_ResetKeepsSort ==
    [][ ResetStep =>
          /\ searchValue' = << >>
          /\ countryValue' = AllCountries
          /\ \A i \in 1..Len(rows') : ~rows'[i].filtered
          /\ dataSort' = dataSort
          /\ RowIds(rows') = RowIds(rows) ]_vars

\* a reset has just run on a sorted, reordered table of which a filter had
\* left fewer rows visible than it holds
C21_Witness ==
    /\ lastOp.op = "resetFilters"
    /\ ActiveColumns(dataSort) # {}
    /\ RowIds(rows) # [i \in 1..Len(rows) |-> i]
    /\ visibleCount < Len(rows)
    /\ \A i \in 1..Len(rows) : ~rows[i].filtered

\* what the page shows after a search input of t and then a click on header c
FilterThenSort(t, c) ==
    LET filtered == ApplyFilters(rows, t, countryValue)
        sorted   == RowsAfterSort(filtered, c, NewDirection(dataSort[c]))
    IN  [visible |-> VisibleIds(sorted), dataSort |-> HeadersAfterSort(dataSort, c), term |-> t]

\* what the page shows after a click on header c and then a search input of t
SortThenFilter(t, c) ==
    LET sorted   == RowsAfterSort(rows, c, NewDirection(dataSort[c]))
        filtered == ApplyFilters(sorted, t, countryValue)
    IN  [visible |-> VisibleIds(filtered), dataSort |-> HeadersAfterSort(dataSort, c), term |-> t]

\* C22: from every state in which the handlers are attached, a search input
\* followed by a click on a header ends with the same visible row sequence,
\* sort column, direction and term as the click followed by the search input.
C22_FilterAndSortCommute ==
    listening =>
        \A t \in SearchTerms : \A c \in Columns :
            FilterThenSort(t, c) = SortThenFilter(t, c)

\* a state from which some term and header both hide a row and reorder the
\* rows that stay visible
C22_Witness ==
    /\ listening
    /\ \E t \in SearchTerms : \E c \in Columns :
          LET v == FilterThenSort(t, c).visible
          IN  /\ Len(v) >= 2
              /\ Len(v) < Len(rows)
              /\ \E i \in 1..(Len(v) - 1) : v[i] > v[i + 1]

\* the outputs of the code cells, in notebook order and in order within a cell
RECURSIVE ScanOrder(_)
ScanOrder(cells) ==
    IF cells = << >> THEN << >>
    ELSE (IF Head(cells).cell_type = "code" THEN Head(cells).outputs ELSE << >>)
            \o ScanOrder(Tail(cells))

\* the text an output carries
ContentOf(o) == IF o.output_type = "stream" THEN Concat(o.text) ELSE Concat(o.html)

\* an output qualifies: a stdout stream whose text starts with "<" once
\* trimmed, contains ">" and contains the target substring, or a
\* display_data text/html value that contains the target substring
Qualifies(o) ==
    \/ /\ o.output_type = "stream"
       /\ o.name = "stdout"
       /\ Trim(ContentOf(o)) # << >>
       /\ Head(Trim(ContentOf(o))) = "<"
       /\ \E i \in 1..Len(ContentOf(o)) : ContentOf(o)[i] = ">"
       /\ Includes(ContentOf(o), TARGET_HTML_SUBSTRING)
    \/ /\ o.output_type = "display_data"
       /\ o.hasHtml
       /\ Includes(ContentOf(o), TARGET_HTML_SUBSTRING)

\* positions in the scan order of the outputs that qualify
Hits(cells) == {i \in 1..Len(ScanOrder(cells)) : Qualifies(ScanOrder(cells)[i])}

\* C23: once the scan of the notebook has run, the HTML injected is the
\* content of the first output, in notebook order over the code cells and in
\* order within each cell, that qualifies; a later qualifying output never
\* takes its place, outputs of other cells are not looked at, and when no
\* output qualifies nothing is injected.
C23_FirstQualifyingOutput ==
    /\ phase = "ready" =>
          /\ Hits(notebook) # {}
          /\ container = "table"
          /\ \E i \in Hits(notebook) :
                /\ \A j \in Hits(notebook) : i <= j
                /\ extractedHtml = ContentOf(ScanOrder(notebook)[i])
    /\ lastOp.op = "noHtmlOutput" =>
          /\ Hits(notebook) = {}
          /\ container = "error"
          /\ extractedHtml = << >>
    /\ (phase = "parsing" /\ Hits(notebook) = {}) => ~ENABLED InjectTable

\* the notebook opens with a markdown cell carrying a qualifying output, its
\* code cell holds two qualifying outputs, and the first of the two is shown
C23_Witness ==
    /\ phase = "ready"
    /\ notebook = << [cell_type |-> "markdown", outputs |-> << StdoutTable >>],
                     [cell_type |-> "code", outputs |-> << DisplayTable, StdoutTable >>] >>
    /\ extractedHtml = ContentOf(DisplayTable)
    /\ extractedHtml # ContentOf(StdoutTable)

====
